---- MODULE Spec2Model ----
(***************************************************************************)
(* A model of the follow graph, the feed query and the search-index        *)
(* synchronizer of Flask-Chronicles (src/app/models.py, src/app/search.py, *)
(* src/app/main/routes.py, src/tests.py).                                  *)
(*                                                                         *)
(* The relational store is modelled as committed tables plus, per session, *)
(* the write set of its open transaction; the ORM session as its pending   *)
(* collections (session.new, session.dirty, session.deleted, the pending   *)
(* operations of the write-only `following` collection) and the            *)
(* session._changes snapshot of the commit hooks.                          *)
(*                                                                         *)
(* Every operation of the code is a function from a world (a record of all *)
(* the state) to a world, so that a caller's sequence of calls             *)
(* (u.follow(v); db.session.commit()) is the composition of the functions. *)
(* A raised exception is recorded in exc[s]; the statements that follow a  *)
(* raise in the same caller are skipped.                                   *)
(***************************************************************************)
EXTENDS Integers, Sequences, FiniteSets, TLC

\* ------------------------------------------------------------------ bounds
NUsers == 2        \* user rows 1..NUsers
NSessions == 2     \* concurrent sessions (requests) in the ORM-level specifications
MaxPosts == 1      \* Post objects ever constructed
MaxEdges == 3      \* rows of the followers table
MaxTs == 2         \* timestamps are drawn from 1..MaxTs
MaxTxOps == 1       \* followers rows one open transaction writes
MaxSearchPosts == 2 \* Post objects ever constructed in the search specification
MaxPage == 2        \* page numbers of a search are drawn from 1..MaxPage
MaxPerPage == 2     \* page sizes of a search are drawn from 1..MaxPerPage
MaxRoutePosts == 4  \* posts submitted to the index route
MaxTiePosts == 2    \* posts in the specification of equal timestamps
MaxBody == 2       \* post bodies are drawn from 1..MaxBody
MaxName == 2       \* usernames and email addresses are drawn from 1..MaxName
MaxPw == 3         \* passwords are drawn from 1..MaxPw
MaxSalt == 3       \* salts are drawn from 1..MaxSalt
MaxRegPw == 1      \* passwords of registration forms are drawn from 1..MaxRegPw
MaxRegSalt == 1    \* salts of registrations are drawn from 1..MaxRegSalt
MaxClock == 3      \* the clock runs from 1 to MaxClock
MaxClockPosts == 2 \* Post objects ever constructed in the specification of the clock

Users == 1..NUsers
Sessions == 1..NSessions
Timestamps == 1..MaxTs
Bodies == 1..MaxBody
Names == 1..MaxName
Passwords == 1..MaxPw
Salts == 1..MaxSalt

VARIABLES
    user_table,     \* committed rows of the user table
    followers,      \* committed rows of the followers table: (follower_id, followed_id) -> number of rows
    post,           \* committed rows of the post table
    post_seq,       \* last id the post table handed out
    nobj,           \* number of Post objects constructed so far (object identity)
    new,            \* new[s]: session.new, objects added and not yet flushed
    dirty,          \* dirty[s]: modified persistent objects, not yet flushed
    deleted,        \* deleted[s]: objects marked for deletion, not yet flushed
    pending,        \* pending[s]: unflushed add/remove operations of User.following
    txn,            \* txn[s]: rows the session's open transaction wrote (flushed, uncommitted)
    changes,        \* changes[s]: session._changes
    inactive,       \* inactive[s]: the transaction was rolled back by a failed flush or commit
    exc,            \* exc[s]: the exception the session's last call raised
    pc,             \* pc[s]: where the session is inside Session.commit()
    index,          \* documents of the external index "post"
    elasticsearch,  \* current_app.elasticsearch
    feed,           \* result of the last following_posts() query
    paged,          \* result of the last paginated feed read (db.paginate)
    found,          \* result of the last Post.search(...)
    form,           \* the registration form last validated, with its errors
    hashing,        \* the User object of the password test, with the calls made on it
    clock,          \* the time datetime.now(timezone.utc) returns
    stamped         \* stamped[id]: the time of the INSERT of post id, for the posts
                    \* created without a timestamp (history of the column default)

vars == <<user_table, followers, post, post_seq, nobj, new, dirty, deleted, pending,
          txn, changes, inactive, exc, pc, index, elasticsearch, feed, paged, found, form,
          hashing, clock, stamped>>

World ==
    [user_table |-> user_table, followers |-> followers, post |-> post,
     post_seq |-> post_seq, nobj |-> nobj,
     new |-> new, dirty |-> dirty, deleted |-> deleted, pending |-> pending,
     txn |-> txn, changes |-> changes, inactive |-> inactive, exc |-> exc,
     pc |-> pc, index |-> index, elasticsearch |-> elasticsearch, feed |-> feed,
     paged |-> paged, found |-> found, form |-> form, hashing |-> hashing,
     clock |-> clock, stamped |-> stamped]

Apply(W) ==
    /\ user_table' = W.user_table
    /\ followers' = W.followers
    /\ post' = W.post
    /\ post_seq' = W.post_seq
    /\ nobj' = W.nobj
    /\ new' = W.new
    /\ dirty' = W.dirty
    /\ deleted' = W.deleted
    /\ pending' = W.pending
    /\ txn' = W.txn
    /\ changes' = W.changes
    /\ inactive' = W.inactive
    /\ exc' = W.exc
    /\ pc' = W.pc
    /\ index' = W.index
    /\ elasticsearch' = W.elasticsearch
    /\ feed' = W.feed
    /\ paged' = W.paged
    /\ found' = W.found
    /\ form' = W.form
    /\ hashing' = W.hashing
    /\ clock' = W.clock
    /\ stamped' = W.stamped

\* ------------------------------------------------------------- exceptions
NoExc == "none"
\* session._changes is None (or was never set)
NoChanges == [set |-> FALSE, add |-> {}, update |-> {}, delete |-> {}]
NoFeed == [sess |-> 0, user |-> 0, posts |-> <<>>]
NoPage == [sess |-> 0, user |-> 0, page |-> 0, items |-> <<>>, total |-> 0,
           has_next |-> FALSE, has_prev |-> FALSE]
NoFound == [sess |-> 0, ids |-> <<>>, items |-> <<>>, total |-> 0]
NoForm == [sess |-> 0, username |-> 0, email |-> 0, errors |-> {}]

Raised(W, s) == W.exc[s] # NoExc
Raise(W, s, e) == [W EXCEPT !.exc[s] = e]

\* ---------------------------------------------------------------- objects
\* A mapped object. kind tells the class; h is the identity of a Post object
\* (Post ids are None, written 0, until the INSERT of the flush).
\* password_hash is None. A credential is the sequence of the parts of the
\* string that "$" separates.
NoHash == <<>>

\* None in an attribute, NULL in a column
NULL == 0

\* A persistent User of which no column has a change pending.
UserObj(u) ==
    [kind |-> "user", h |-> 0, id |-> u, user_id |-> 0, timestamp |-> 0, body |-> 0,
     username |-> 0, email |-> 0, password_hash |-> NoHash]
\* User(username=..., email=...)
NewUser(h, username, email) ==
    [kind |-> "user", h |-> h, id |-> 0, user_id |-> 0, timestamp |-> 0, body |-> 0,
     username |-> username, email |-> email, password_hash |-> NoHash]
PostObj(h, id, user_id, timestamp, body) ==
    [kind |-> "post", h |-> h, id |-> id, user_id |-> user_id,
     timestamp |-> timestamp, body |-> body,
     username |-> 0, email |-> 0, password_hash |-> NoHash]
PostRow(o) ==
    [id |-> o.id, user_id |-> o.user_id, timestamp |-> o.timestamp, body |-> o.body]
UserRow(o) ==
    [id |-> o.id, username |-> o.username, email |-> o.email,
     password_hash |-> o.password_hash]

\* u = User(username=..., email=...) of test_password_hashing, before any call:
\* last and before are the passwords of the last two set_password calls, q
\* and result the argument and the outcome of the last check_password.
NoHashing ==
    [u |-> NewUser(0, 1, 1), last |-> 0, before |-> 0, q |-> 0,
     result |-> [exc |-> NoExc, value |-> FALSE]]

EmptyTxn == [ins |-> {}, del |-> {}, prow |-> {}, pdel |-> {}, urow |-> {}]

\* ----------------------------------------------------------------- tables
\* The followers table holds rows (follower_id, followed_id); a table is the
\* number of rows per key, over the keys that have a row.
Rows(t, e) == IF e \in DOMAIN t THEN t[e] ELSE 0

\* The followers table as session s sees it: the committed rows, less the
\* rows its transaction deleted, plus the rows its transaction inserted.
ViewRows(W, s, e) ==
    (IF e \in W.txn[s].del THEN 0 ELSE Rows(W.followers, e))
    + (IF e \in W.txn[s].ins THEN 1 ELSE 0)

ViewKeys(W, s) ==
    {e \in DOMAIN W.followers \cup W.txn[s].ins : ViewRows(W, s, e) > 0}

\* The post table as session s sees it.
ViewPost(W, s) ==
    {r \in W.post : r.id \notin W.txn[s].pdel
                    /\ r.id \notin {x.id : x \in W.txn[s].prow}}
    \cup W.txn[s].prow

\* The user table as session s sees it.
ViewUser(W, s) == W.user_table \cup W.txn[s].urow

\* The largest id of a set of rows (0 for no row).
MaxId(rows) ==
    IF rows = {} THEN 0 ELSE CHOOSE n \in {r.id : r \in rows} : \A r \in rows : r.id <= n

\* ------------------------------------------------------------------ flush
\* The composite primary key of the followers table: an INSERT of a key the
\* session sees a row for is rejected.
\* (mutant) the table has no primary key
PrimaryKeyViolated_NoKey(W, s, e) == FALSE

PrimaryKeyViolated(W, s, e) == ViewRows(W, s, e) > 0

Edge(p) == <<p.follower, p.followed>>

\* unique=True on User.username and User.email: an INSERT of a user whose
\* username or email a row the session sees has is rejected.
UniqueViolated(W, s, o) ==
    \/ \E r \in ViewUser(W, s) : r.username = o.username \/ r.email = o.email
    \/ \E x \in W.new[s] :
           /\ x.kind = "user" /\ x # o
           /\ (x.username = o.username \/ x.email = o.email)

\* The error a flush of session s raises, if any: IntegrityError for an
\* INSERT that violates the primary key or a unique constraint,
\* StaleDataError for an UPDATE of a mapped row, or a DELETE on the followers
\* table, that matches no row. (A DELETE of a mapped row that matches no row
\* only warns.)
FlushError(W, s) ==
    IF \/ \E p \in W.pending[s] : p.op = "add" /\ PrimaryKeyViolated(W, s, Edge(p))
       \/ \E o \in W.new[s] : o.kind = "user" /\ UniqueViolated(W, s, o)
    THEN "IntegrityError"
    ELSE IF \/ \E p \in W.pending[s] : p.op = "remove" /\ ViewRows(W, s, Edge(p)) = 0
            \/ \E o \in W.dirty[s] :
                   /\ o.kind = "post"
                   /\ \A d \in W.deleted[s] : d.id # o.id
                   /\ o.id \notin {r.id : r \in ViewPost(W, s)}
    THEN "StaleDataError"
    ELSE NoExc

\* What a rollback leaves of the session: the transaction's rows are gone,
\* the objects added in it are expunged, pending changes are discarded.
\* session._changes is an attribute the hooks put on the session; a rollback
\* does not touch it.
RollbackState(W, s) ==
    [W EXCEPT !.txn[s] = EmptyTxn, !.new[s] = {}, !.dirty[s] = {},
              !.deleted[s] = {}, !.pending[s] = {}]

\* A failed flush or commit: the transaction is rolled back, the session
\* stays unusable until Session.rollback(), the error goes to the caller.
FailTransaction(W, s, e) ==
    [RollbackState(W, s) EXCEPT !.inactive[s] = TRUE, !.exc[s] = e]

\* Another session's open transaction wrote a row session s is about to
\* write: the statement of s waits for that transaction to end.
Blocked(W, s) ==
    \E t \in Sessions \ {s} :
        \/ \E p \in W.pending[s] : Edge(p) \in W.txn[t].ins \cup W.txn[t].del
        \/ \E o \in W.dirty[s] \cup W.deleted[s] :
               o.kind = "post" /\ o.id \in W.txn[t].pdel \cup {r.id : r \in W.txn[t].prow}
        \/ \E o \in W.new[s], r \in W.txn[t].urow :
               o.kind = "user" /\ (r.username = o.username \/ r.email = o.email)

\* (mutant) default=datetime.now(timezone.utc): evaluated once, when the
\* class is defined
column_default_AtImport(W) == 1

\* Post.timestamp, default=lambda: datetime.now(timezone.utc): called for
\* each INSERT of a Post whose timestamp is None.
column_default(W) == W.clock

\* Session.flush(): INSERT the new objects (ids in the order the objects were
\* added, the column default for a timestamp that is None), UPDATE the dirty
\* ones, write the pending rows of the follow relation, DELETE the deleted
\* objects.
flush(W, s) ==
    IF Raised(W, s) THEN W
    ELSE IF FlushError(W, s) # NoExc THEN FailTransaction(W, s, FlushError(W, s))
    ELSE
    LET news == {o \in W.new[s] : o.kind = "post"}
        unews == {o \in W.new[s] : o.kind = "user"}
        lastUser == MaxId(W.user_table \cup UNION {W.txn[x].urow : x \in Sessions})
        Persist(o) ==
            IF o \in news
            THEN [o EXCEPT !.id = W.post_seq + Cardinality({x \in news : x.h <= o.h}),
                           !.timestamp = IF @ = NULL THEN column_default(W) ELSE @]
            ELSE IF o \in unews
            THEN [o EXCEPT !.id = lastUser + Cardinality({x \in unews : x.h <= o.h})]
            ELSE o
        delIds == {o.id : o \in {x \in W.deleted[s] : x.kind = "post"}}
        upd == {o \in W.dirty[s] : o.kind = "post" /\ o.id \notin delIds}
        updIds == {o.id : o \in upd}
        adds == {Edge(p) : p \in {x \in W.pending[s] : x.op = "add"}}
        removes == {Edge(p) : p \in {x \in W.pending[s] : x.op = "remove"}}
        defaulted == {Persist(o).id : o \in {x \in news : x.timestamp = NULL}}
        t == W.txn[s]
        c == W.changes[s]
    IN  [W EXCEPT
            !.post_seq = W.post_seq + Cardinality(news),
            !.stamped = [i \in DOMAIN W.stamped \cup defaulted |->
                            IF i \in defaulted THEN W.clock ELSE W.stamped[i]],
            !.txn[s] = [ins |-> (t.ins \cup adds) \ removes,
                        del |-> t.del \cup removes,
                        prow |-> {r \in t.prow : r.id \notin updIds \cup delIds}
                                 \cup {PostRow(Persist(o)) : o \in news}
                                 \cup {PostRow(o) : o \in upd},
                        pdel |-> t.pdel \cup delIds,
                        urow |-> t.urow \cup {UserRow(Persist(o)) : o \in unews}],
            !.changes[s] = [set |-> c.set,
                            add |-> {Persist(o) : o \in c.add},
                            update |-> {Persist(o) : o \in c.update},
                            delete |-> {Persist(o) : o \in c.delete}],
            !.new[s] = {}, !.dirty[s] = {}, !.deleted[s] = {}, !.pending[s] = {}]

\* Session.rollback(), as the 500 handler calls it.
rollback(W, s) ==
    [RollbackState(W, s) EXCEPT !.inactive[s] = FALSE, !.exc[s] = NoExc, !.pc[s] = "idle"]

\* ---------------------------------------------------------- follow graph
\* User.is_following: a SELECT through the session (which flushes first).
is_following(W, s, self, user) == ViewRows(W, s, <<self, user>>) > 0

\* self.following.add(user) / .remove(user): recorded on the collection,
\* written at the next flush; the owning User becomes dirty.
following_add(W, s, self, user) ==
    [W EXCEPT !.pending[s] = @ \cup {[op |-> "add", follower |-> self, followed |-> user]},
              !.dirty[s] = @ \cup {UserObj(self)}]

\* (mutant) unfollow empties the collection
following_remove_All(W, s, self, user) ==
    [W EXCEPT !.pending[s] = @ \cup {[op |-> "remove", follower |-> self, followed |-> y]
                                        : y \in {x \in Users : ViewRows(W, s, <<self, x>>) > 0}},
              !.dirty[s] = @ \cup {UserObj(self)}]

following_remove(W, s, self, user) ==
    [W EXCEPT !.pending[s] = @ \cup {[op |-> "remove", follower |-> self, followed |-> user]},
              !.dirty[s] = @ \cup {UserObj(self)}]

\* (mutant) follow adds without asking is_following
follow_NoCheck(W, s, self, user) ==
    LET F == flush(W, s)
    IN  IF Raised(F, s) THEN F ELSE following_add(F, s, self, user)

follow(W, s, self, user) ==
    LET F == flush(W, s)
    IN  IF Raised(F, s) THEN F
        ELSE IF ~is_following(F, s, self, user) THEN following_add(F, s, self, user)
        ELSE F

unfollow(W, s, self, user) ==
    LET F == flush(W, s)
    IN  IF Raised(F, s) THEN F
        ELSE IF is_following(F, s, self, user) THEN following_remove(F, s, self, user)
        ELSE F

\* followers_count / following_count: SELECT count(*) over the rows of the
\* relation with self as followed / as follower.
RECURSIVE SumRows(_, _, _)
SumRows(W, s, keys) ==
    IF keys = {} THEN 0
    ELSE LET e == CHOOSE x \in keys : TRUE
         IN  ViewRows(W, s, e) + SumRows(W, s, keys \ {e})

\* (mutant) followers_count counts the rows with self as follower
followers_count_Swapped(W, s, self) ==
    SumRows(W, s, {e \in ViewKeys(W, s) : e[1] = self})

followers_count(W, s, self) == SumRows(W, s, {e \in ViewKeys(W, s) : e[2] = self})
following_count(W, s, self) == SumRows(W, s, {e \in ViewKeys(W, s) : e[1] = self})

\* ------------------------------------------------------------ search index
\* (mutant) the hook has no isinstance check
Searchable_Any(o) == TRUE

\* isinstance(obj, SearchableMixin): Post is the only searchable class.
Searchable(o) == o.kind = "post"

\* Post.__searchable__
searchable == <<"body">>

\* The document add_to_index builds: the fields __searchable__ names.
Payload(o) == [f \in {searchable[i] : i \in DOMAIN searchable} |-> o[f]]

\* current_app.elasticsearch is "unset" (create_app never assigns the
\* attribute: reading it raises AttributeError), "none" (no index configured),
\* "up" (a client whose calls succeed) or "down" (a client whose calls fail).
\* The client's delete of an id that has no document raises NotFoundError.
add_to_index(W, s, o) ==
    IF Raised(W, s) THEN W
    ELSE IF W.elasticsearch = "unset" THEN Raise(W, s, "AttributeError")
    ELSE IF W.elasticsearch = "none" THEN W
    ELSE IF W.elasticsearch = "down" THEN Raise(W, s, "ConnectionError")
    ELSE [W EXCEPT !.index = {d \in @ : d.id # o.id}
                              \cup {[id |-> o.id, document |-> Payload(o)]}]

remove_from_index(W, s, o) ==
    IF Raised(W, s) THEN W
    ELSE IF W.elasticsearch = "unset" THEN Raise(W, s, "AttributeError")
    ELSE IF W.elasticsearch = "none" THEN W
    ELSE IF W.elasticsearch = "down" THEN Raise(W, s, "ConnectionError")
    ELSE IF \A d \in W.index : d.id # o.id THEN Raise(W, s, "NotFoundError")
    ELSE [W EXCEPT !.index = {d \in @ : d.id # o.id}]

\* ------------------------------------------------------------ commit hooks
SameObject(a, b) == a.kind = b.kind /\ a.id = b.id /\ a.h = b.h

\* (mutant) before_commit adds to the lists an earlier commit left behind
before_commit_Accumulate(W, s) ==
    IF Raised(W, s) THEN W
    ELSE [W EXCEPT !.changes[s] =
            [set |-> TRUE,
             add |-> @.add \cup W.new[s],
             update |-> @.update \cup
                        {o \in W.dirty[s] : \A d \in W.deleted[s] : ~SameObject(o, d)},
             delete |-> @.delete \cup W.deleted[s]]]

\* SearchableMixin.before_commit. session.dirty leaves out the objects that
\* are marked for deletion.
before_commit(W, s) ==
    IF Raised(W, s) THEN W
    ELSE [W EXCEPT !.changes[s] =
            [set |-> TRUE,
             add |-> W.new[s],
             update |-> {o \in W.dirty[s] : \A d \in W.deleted[s] : ~SameObject(o, d)},
             delete |-> W.deleted[s]]]

RECURSIVE AddAll(_, _, _)
AddAll(W, s, objs) ==
    IF objs = {} THEN W
    ELSE LET o == CHOOSE x \in objs : TRUE
         IN  AddAll(IF Searchable(o) THEN add_to_index(W, s, o) ELSE W, s, objs \ {o})

RECURSIVE RemoveAll(_, _, _)
RemoveAll(W, s, objs) ==
    IF objs = {} THEN W
    ELSE LET o == CHOOSE x \in objs : TRUE
         IN  RemoveAll(IF Searchable(o) THEN remove_from_index(W, s, o) ELSE W, s, objs \ {o})

\* (mutant) a failed index call takes the rows the transaction added back
\* out of the table
after_commit_Compensate(W, s) ==
    IF Raised(W, s) THEN W
    ELSE LET c == W.changes[s]
             D == RemoveAll(AddAll(AddAll(W, s, c.add), s, c.update), s, c.delete)
         IN  IF Raised(D, s)
             THEN [D EXCEPT !.post = {r \in @ : \A o \in c.add : o.id # r.id}]
             ELSE [D EXCEPT !.changes[s] = NoChanges]

\* SearchableMixin.after_commit: the three loops, then session._changes = None
\* (not reached when an index call raises).
after_commit(W, s) ==
    IF Raised(W, s) THEN W
    ELSE LET c == W.changes[s]
             D == RemoveAll(AddAll(AddAll(W, s, c.add), s, c.update), s, c.delete)
         IN  IF Raised(D, s) THEN D ELSE [D EXCEPT !.changes[s] = NoChanges]

\* The COMMIT of the transaction: its rows become the committed rows. dbok
\* tells whether the store accepts it.
db_commit(W, s, dbok) ==
    IF Raised(W, s) THEN W
    ELSE IF ~dbok THEN FailTransaction(W, s, "OperationalError")
    ELSE [W EXCEPT !.user_table = ViewUser(W, s),
                   !.followers = [e \in ViewKeys(W, s) |-> ViewRows(W, s, e)],
                   !.post = ViewPost(W, s),
                   !.txn[s] = EmptyTxn]

\* Session.commit() with the two listeners: the before_commit event, the
\* flush, the COMMIT, the after_commit event.
prepare_commit(W, s, dbok) == db_commit(flush(before_commit(W, s), s), s, dbok)

commit(W, s, dbok) == after_commit(prepare_commit(W, s, dbok), s)

\* ------------------------------------------------------------------ posts
\* p = Post(body=..., author=..., timestamp=...); db.session.add(p)
add_post(W, s, author, ts, body) ==
    IF Raised(W, s) THEN W
    ELSE [W EXCEPT !.nobj = @ + 1,
                   !.new[s] = @ \cup {PostObj(W.nobj + 1, 0, author, ts, body)}]

\* The object of row r as the session holds it: with the values of an
\* unflushed modification, if there is one.
Loaded(W, s, r) ==
    IF \E o \in W.dirty[s] : o.kind = "post" /\ o.id = r.id
    THEN CHOOSE o \in W.dirty[s] : o.kind = "post" /\ o.id = r.id
    ELSE PostObj(0, r.id, r.user_id, r.timestamp, r.body)

\* p.body = body on a persistent Post: the object becomes dirty.
modify_post(W, s, r, body) ==
    IF Raised(W, s) THEN W
    ELSE [W EXCEPT !.dirty[s] =
            {o \in @ : ~(o.kind = "post" /\ o.id = r.id)}
            \cup {[Loaded(W, s, r) EXCEPT !.body = body]}]

\* db.session.delete(p) on a persistent Post.
delete_post(W, s, r) ==
    IF Raised(W, s) THEN W
    ELSE [W EXCEPT !.deleted[s] = @ \cup {Loaded(W, s, r)}]

\* ------------------------------------------------------------------- feed

\* select(Post).join(Post.author.of_type(Author))
\*             .join(Author.followers.of_type(Follower), isouter=True):
\* one row per post and row of the followers table with the post's author as
\* followed; a post whose author has no follower keeps one row, Follower NULL.
\* (mutant) the join to the followers is an inner join
JoinRows_Inner(W, s) ==
    UNION {
        LET ks == {k \in ViewKeys(W, s) : k[2] = p.user_id}
        IN  UNION {{[post |-> p, author |-> p.user_id, follower |-> k[1], copy |-> i]
                        : i \in 1..ViewRows(W, s, k)} : k \in ks}
        : p \in ViewPost(W, s)}

JoinRows(W, s) ==
    UNION {
        LET ks == {k \in ViewKeys(W, s) : k[2] = p.user_id}
        IN  IF ks = {}
            THEN {[post |-> p, author |-> p.user_id, follower |-> NULL, copy |-> 1]}
            ELSE UNION {{[post |-> p, author |-> p.user_id, follower |-> k[1], copy |-> i]
                            : i \in 1..ViewRows(W, s, k)} : k \in ks}
        : p \in ViewPost(W, s)}

\* (mutant) the filter forgets the user's own posts
Where_NoOwn(rows, self) == {r \in rows : r.follower = self}

\* (mutant) the filter accepts any follower
Where_AnyFollower(rows, self) == {r \in rows : r.follower # NULL \/ r.author = self}

\* .where(sa.or_(Follower.id == self.id, Author.id == self.id))
Where(rows, self) == {r \in rows : r.follower = self \/ r.author = self}

\* (mutant) no GROUP BY
GroupByPost_None(rows) == rows

\* .group_by(Post): one row per post
GroupByPost(rows) ==
    {CHOOSE r \in rows : r.post = p : p \in {x.post : x \in rows}}

\* (mutant) ORDER BY timestamp ASC
RECURSIVE OrderByTimestampAsc(_)
OrderByTimestampAsc(rows) ==
    IF rows = {} THEN {<<>>}
    ELSE UNION {{<<r>> \o t : t \in OrderByTimestampAsc(rows \ {r})}
                    : r \in {x \in rows :
                               \A y \in rows : x.post.timestamp <= y.post.timestamp}}

\* .order_by(Post.timestamp.desc()): every order of the rows in which the
\* timestamps descend (the order of rows with equal timestamps is the
\* store's choice).
RECURSIVE OrderByTimestampDesc(_)
OrderByTimestampDesc(rows) ==
    IF rows = {} THEN {<<>>}
    ELSE UNION {{<<r>> \o t : t \in OrderByTimestampDesc(rows \ {r})}
                    : r \in {x \in rows :
                               \A y \in rows : x.post.timestamp >= y.post.timestamp}}

\* The results db.session.scalars(self.following_posts()).all() may return.
following_posts(W, s, self) ==
    {[i \in 1..Len(q) |-> q[i].post]
        : q \in OrderByTimestampDesc(GroupByPost(Where(JoinRows(W, s), self)))}

\* ------------------------------------------------------------------- init
\* The state after create_app and db.create_all(): empty tables except for
\* the user rows us, fresh sessions, an empty index.
InitUsers(es, us) ==
    /\ user_table = us
    /\ followers = [e \in {} |-> 0]
    /\ post = {}
    /\ post_seq = 0
    /\ nobj = 0
    /\ new = [s \in Sessions |-> {}]
    /\ dirty = [s \in Sessions |-> {}]
    /\ deleted = [s \in Sessions |-> {}]
    /\ pending = [s \in Sessions |-> {}]
    /\ txn = [s \in Sessions |-> EmptyTxn]
    /\ changes = [s \in Sessions |-> NoChanges]
    /\ inactive = [s \in Sessions |-> FALSE]
    /\ exc = [s \in Sessions |-> NoExc]
    /\ pc = [s \in Sessions |-> "idle"]
    /\ index = {}
    /\ elasticsearch \in es
    /\ feed = NoFeed
    /\ paged = NoPage
    /\ found = NoFound
    /\ form = NoForm
    /\ hashing = NoHashing
    /\ clock = 1
    /\ stamped = [i \in {} |-> 0]

\* The users 1..NUsers exist, as the tests add them: User(username=...,
\* email=...), no password set.
InitWith(es) ==
    InitUsers(es, {[id |-> u, username |-> u, email |-> u, password_hash |-> NoHash]
                       : u \in Users})

Init == InitWith({"unset", "none", "up", "down"})

\* A new call on session s: no exception is pending in the caller, and a
\* feed read earlier is no longer the feed of the current state.
Begin(s) ==
    [World EXCEPT !.exc[s] = NoExc, !.feed = NoFeed, !.paged = NoPage, !.found = NoFound,
                  !.form = NoForm]

\* Session s can take a call: its transaction is usable, it is not inside
\* commit(), and the caller has consumed the result of its last feed read.
Ready(s) == ~inactive[s] /\ pc[s] = "idle" /\ feed.sess # s

\* One more Post object may be constructed (the bound of the model).
PostRoom == nobj < MaxPosts

\* The followers table has room for one more row (the bound of the model).
EdgeRoom == Cardinality(DOMAIN followers) < MaxEdges

\* ------------------------------------------------- committed operations
\* p = Post(body, author, timestamp); db.session.add(p); db.session.commit()
PostCommitted(s, author, ts, body, dbok) ==
    /\ Ready(s)
    /\ \E W \in {add_post(Begin(s), s, author, ts, body)} :
           /\ ~Blocked(W, s)
           /\ \E W2 \in {commit(W, s, dbok)} : Apply(W2)

\* a.follow(b); db.session.commit()
FollowCommitted(s, a, b, dbok) ==
    /\ Ready(s)
    /\ \E W \in {follow(Begin(s), s, a, b)} :
           /\ ~Blocked(W, s)
           /\ \E W2 \in {commit(W, s, dbok)} : Apply(W2)

\* a.unfollow(b); db.session.commit()
UnfollowCommitted(s, a, b, dbok) ==
    /\ Ready(s)
    /\ \E W \in {unfollow(Begin(s), s, a, b)} :
           /\ ~Blocked(W, s)
           /\ \E W2 \in {commit(W, s, dbok)} : Apply(W2)

\* db.session.rollback() after a failed call
Rollback(s) ==
    /\ inactive[s]
    /\ \E W \in {rollback(Begin(s), s)} : Apply(W)

\* db.session.scalars(u.following_posts()).all()
FeedQuery(s, u) ==
    /\ Ready(s)
    /\ ~Blocked(World, s)
    /\ \E W \in {flush(Begin(s), s)} :
           IF Raised(W, s) THEN Apply(W)
           ELSE \E r \in following_posts(W, s, u) :
                    Apply([W EXCEPT !.feed = [sess |-> s, user |-> u, posts |-> r]])

\* The caller is done with the list the feed read returned.
Respond(s) ==
    /\ feed.sess = s
    /\ feed' = NoFeed
    /\ UNCHANGED <<clock, stamped, user_table, followers, post, post_seq, nobj, new, dirty, deleted,
                   pending, txn, changes, inactive, exc, pc, index, elasticsearch, paged, found, form,
                   hashing>>

\* ------------------------------------------------------------- SpecFeed
\* One session (the test's db.session) running committed operations and feed
\* reads in any order.
InitFeed == InitWith({"unset", "none"})

NextFeed ==
    \/ \E a \in Users, ts \in Timestamps : PostRoom /\ PostCommitted(1, a, ts, 1, TRUE)
    \/ \E a, b \in Users : EdgeRoom /\ FollowCommitted(1, a, b, TRUE)
    \/ \E a, b \in Users : UnfollowCommitted(1, a, b, TRUE)
    \/ Respond(1)
    \/ \E u \in Users : FeedQuery(1, u)

SpecFeed == InitFeed /\ [][NextFeed]_vars

\* --------------------------------------------------------- feed claims
HasFeed == feed.sess # 0
InFeed(p) == \E i \in DOMAIN feed.posts : feed.posts[i] = p
Follows(a, b) == Rows(followers, <<a, b>>) > 0

\* C1: feed completeness. In every state reached by committed post
\* creations, follows and unfollows, the result of U.following_posts()
\* contains every post U wrote and every post written by a user U follows.
C1_FeedComplete ==
    HasFeed =>
        \A p \in post :
            (p.user_id = feed.user \/ Follows(feed.user, p.user_id)) => InFeed(p)

\* A feed that holds the post of another, followed user.
C1_Witness ==
    /\ HasFeed
    /\ \E p \in post : p.user_id # feed.user /\ Follows(feed.user, p.user_id) /\ InFeed(p)

\* C2: feed isolation. A post written by X is in U's feed only if U = X or
\* the edge (U, X) exists now (so not after unfollow(U, X) was committed).
C2_FeedIsolation ==
    HasFeed =>
        \A i \in DOMAIN feed.posts :
            /\ feed.posts[i] \in post
            /\ \/ feed.posts[i].user_id = feed.user
               \/ Follows(feed.user, feed.posts[i].user_id)

\* A feed that leaves out the post of a user who has a follower, but not
\* the reader.
C2_Witness ==
    /\ HasFeed
    /\ \E p \in post :
          /\ p.user_id # feed.user
          /\ ~Follows(feed.user, p.user_id)
          /\ \E f \in Users : Follows(f, p.user_id)
          /\ ~InFeed(p)

\* C3: feed deduplication. The feed returns each post at most once, also
\* when the author has several followers, when the reader is the author and
\* follows itself, and when the author has no follower.
C3_FeedNoDuplicates ==
    HasFeed =>
        \A i, j \in DOMAIN feed.posts : i # j => feed.posts[i].id # feed.posts[j].id

\* The reader wrote the post, follows itself, and has a second follower.
C3_Witness ==
    /\ HasFeed
    /\ Follows(feed.user, feed.user)
    /\ \E f \in Users \ {feed.user} : Follows(f, feed.user)
    /\ \E p \in post : p.user_id = feed.user /\ InFeed(p)

\* C5: own posts survive the outer join. The feed of a user nobody follows
\* contains every post the user wrote.
C5_OwnPostsWithoutFollowers ==
    (HasFeed /\ \A x \in Users : ~Follows(x, feed.user)) =>
        \A p \in post : p.user_id = feed.user => InFeed(p)

\* A user nobody follows reads a feed that holds the user's own post.
C5_Witness ==
    /\ HasFeed
    /\ \A x \in Users : ~Follows(x, feed.user)
    /\ \E p \in post : p.user_id = feed.user /\ InFeed(p)

\* ------------------------------------------------------------- SpecTest
\* The data of UserModelCase.test_follow_posts: four users, one post each
\* with timestamps now+1, now+4, now+3, now+2, and the follows 1->2, 1->4,
\* 2->3, 3->4. The posts are inserted and the follows are made in any order.
NTestUsers == 4
TestUsers == 1..NTestUsers
TestTimestamp == <<1, 4, 3, 2>>
TestFollows == {<<1, 2>>, <<1, 4>>, <<2, 3>>, <<3, 4>>}
\* the feeds the test asserts, as the authors of the posts: f1 = [p2, p4, p1],
\* f2 = [p2, p3], f3 = [p3, p4], f4 = [p4]
TestExpected == <<(<<2, 4, 1>>), (<<2, 3>>), (<<3, 4>>), (<<4>>)>>

InitTest == InitWith({"unset", "none"})

NextTest ==
    \/ \E a \in TestUsers :
           /\ \A p \in post : p.user_id # a
           /\ PostCommitted(1, a, TestTimestamp[a], 1, TRUE)
    \/ \E e \in TestFollows : FollowCommitted(1, e[1], e[2], TRUE)
    \/ \E u \in TestUsers : FeedQuery(1, u)
    \/ Respond(1)

SpecTest == InitTest /\ [][NextTest]_vars

FeedAuthors == [i \in DOMAIN feed.posts |-> feed.posts[i].user_id]
TestScenario ==
    /\ {p.user_id : p \in post} = TestUsers
    /\ DOMAIN followers = TestFollows

\* C4: feed order. The feed is sorted by timestamp, newest first, whatever
\* the order the posts were inserted in; with the posts and follows of
\* test_follow_posts the four feeds are [pB,pD,pA], [pB,pC], [pC,pD], [pD].
C4_FeedOrder ==
    HasFeed =>
        /\ \A i, j \in DOMAIN feed.posts :
               i < j => feed.posts[i].timestamp >= feed.posts[j].timestamp
        /\ TestScenario => FeedAuthors = TestExpected[feed.user]

\* The first user's feed in the test's scenario, with the posts inserted in
\* another order than the test's (the first user's post was not the first).
C4_Witness ==
    /\ HasFeed
    /\ TestScenario
    /\ feed.user = 1
    /\ FeedAuthors = <<2, 4, 1>>
    /\ \E p \in post : p.user_id = 1 /\ p.id = 4

\* ------------------------------------------------- follow graph claims
\* C6: follow idempotence. From any edge set, follow(A,B) twice, with or
\* without a commit in between, leaves the edge set a single follow(A,B)
\* leaves; unfollow(A,B) without the edge (A,B) changes nothing; none raises.
C6_FollowIdempotent ==
    \A a, b \in Users :
        LET once == commit(follow(Begin(1), 1, a, b), 1, TRUE)
            twice == commit(follow(follow(Begin(1), 1, a, b), 1, a, b), 1, TRUE)
            again == commit(follow(once, 1, a, b), 1, TRUE)
            gone == commit(unfollow(Begin(1), 1, a, b), 1, TRUE)
        IN  /\ ~Raised(once, 1) /\ ~Raised(twice, 1) /\ ~Raised(again, 1)
            /\ twice.followers = once.followers
            /\ again.followers = once.followers
            /\ ~Follows(a, b) => (gone.followers = followers /\ ~Raised(gone, 1))

\* A follow has made an edge, which a second follow finds, and another edge
\* is absent for unfollow to find missing.
C6_Witness ==
    \E a, b \in Users :
        /\ a # b /\ Follows(a, b) /\ ~Follows(b, a)
        /\ commit(follow(Begin(1), 1, a, b), 1, TRUE).followers = followers

\* C7: is_following(A,B) holds exactly when the followers table has the row
\* (A,B); following_count and followers_count are the numbers of edges from
\* and to the user; follow(A,B) from an empty graph gives is_following and
\* both counts 1, the unfollow(A,B) after it gives not is_following and both
\* counts 0.
EdgesFrom(t, a) == {e \in DOMAIN t : e[1] = a}
EdgesTo(t, b) == {e \in DOMAIN t : e[2] = b}

C7_FollowingAndCounts ==
    /\ \A a, b \in Users :
           /\ is_following(World, 1, a, b) <=> <<a, b>> \in DOMAIN followers
           /\ following_count(World, 1, a) = Cardinality(EdgesFrom(followers, a))
           /\ followers_count(World, 1, b) = Cardinality(EdgesTo(followers, b))
    /\ \A a, b \in Users :
           LET F == commit(follow(Begin(1), 1, a, b), 1, TRUE)
               U == commit(unfollow(F, 1, a, b), 1, TRUE)
           IN  /\ is_following(F, 1, a, b)
               /\ following_count(F, 1, a) = Cardinality(EdgesFrom(F.followers, a))
               /\ followers_count(F, 1, b) = Cardinality(EdgesTo(F.followers, b))
               /\ ~is_following(U, 1, a, b)
               /\ DOMAIN followers = {} =>
                      /\ following_count(F, 1, a) = 1 /\ followers_count(F, 1, b) = 1
                      /\ following_count(U, 1, a) = 0 /\ followers_count(U, 1, b) = 0

\* After one follow between two users from the empty graph.
C7_Witness ==
    \E a, b \in Users :
        /\ a # b
        /\ DOMAIN followers = {<<a, b>>}
        /\ is_following(World, 1, a, b)
        /\ following_count(World, 1, a) = 1
        /\ followers_count(World, 1, b) = 1
        /\ following_count(World, 1, b) = 0

\* ------------------------------------------------------ ORM-level actions
\* The calls a request makes on its session, one at a time, so that the
\* calls of concurrent requests interleave.
\* One more followers row may be written by the open transaction of s (the
\* bound of the model).
TxRoom(s) ==
    Cardinality(txn[s].ins \cup txn[s].del) + Cardinality(pending[s]) < MaxTxOps

\* a.follow(b)
Follow(s, a, b) ==
    /\ Ready(s)
    /\ ~Blocked(World, s)
    /\ \E W \in {follow(Begin(s), s, a, b)} : Apply(W)

\* a.unfollow(b)
Unfollow(s, a, b) ==
    /\ Ready(s)
    /\ ~Blocked(World, s)
    /\ \E W \in {unfollow(Begin(s), s, a, b)} : Apply(W)

\* db.session.commit()
Commit(s, dbok) ==
    /\ Ready(s)
    /\ ~Blocked(World, s)
    /\ \E W \in {commit(Begin(s), s, dbok)} : Apply(W)

\* db.session.add(Post(...))
AddPost(s, author, ts, body) ==
    /\ Ready(s)
    /\ \E W \in {add_post(Begin(s), s, author, ts, body)} : Apply(W)

\* p.body = body, for a Post p the session has loaded
ModifyPost(s, body) ==
    /\ Ready(s)
    /\ \E r \in ViewPost(World, s) :
           /\ \A o \in deleted[s] : o.id # r.id
           /\ Loaded(World, s, r).body # body
           /\ \E W \in {modify_post(Begin(s), s, r, body)} : Apply(W)

\* db.session.delete(p), for a Post p the session has loaded
DeletePost(s) ==
    /\ Ready(s)
    /\ \E r \in ViewPost(World, s) :
           /\ \A o \in deleted[s] : o.id # r.id
           /\ \E W \in {delete_post(Begin(s), s, r)} : Apply(W)

\* A SELECT through the session (db.session.scalar(...)) with changes
\* pending: the session flushes first.
Autoflush(s) ==
    /\ Ready(s)
    /\ ~Blocked(World, s)
    /\ new[s] \cup dirty[s] \cup deleted[s] \cup pending[s] # {}
    /\ \E W \in {flush(Begin(s), s)} : Apply(W)

\* ------------------------------------------------------------- SpecConc
\* Concurrent requests, each with its own session and transaction, following
\* and unfollowing.
InitConc == InitWith({"unset", "none"})

NextConc ==
    \E s \in Sessions :
        \/ \E a, b \in Users : TxRoom(s) /\ EdgeRoom /\ Follow(s, a, b)
        \/ \E a, b \in Users : TxRoom(s) /\ Unfollow(s, a, b)
        \/ \E dbok \in BOOLEAN : Commit(s, dbok)
        \/ Rollback(s)

SpecConc == InitConc /\ [][NextConc]_vars

\* C8: edge uniqueness. Under any interleaving of the transactions the
\* followers table holds at most one row per (follower, followed) pair.
C8_EdgeUnique == \A e \in DOMAIN followers : followers[e] <= 1

\* Two transactions followed the same pair: one committed the row, the
\* other's write was rejected.
C8_Witness ==
    \E e \in DOMAIN followers, s \in Sessions :
        /\ followers[e] = 1
        /\ exc[s] = "IntegrityError"
        /\ inactive[s]

\* ------------------------------------------------------------- SpecSync
\* One session adding, modifying and deleting posts, reading, committing
\* (the store may refuse the commit) and rolling back, for each state of the
\* index.
InitSync == Init

NextSync ==
    \/ \E body \in Bodies : PostRoom /\ AddPost(1, 1, 1, body)
    \/ \E body \in Bodies : ModifyPost(1, body)
    \/ DeletePost(1)
    \/ Autoflush(1)
    \/ \E dbok \in BOOLEAN : Commit(1, dbok)
    \/ Rollback(1)

SpecSync == InitSync /\ [][NextSync]_vars

Doc(r) == [id |-> r.id, document |-> [body |-> r.body]]

\* C9: commit-failure atomicity. A document is written only for a row that
\* the commit made durable, with that row's fields, and a document is removed
\* only for a row that the commit deleted: a commit (or flush) that fails
\* leaves the index as it was, and its entities get no document and lose no
\* document in any later commit of the session.
C9_FailedCommitNotIndexed ==
    [][/\ (\E s \in Sessions : inactive'[s] /\ ~inactive[s]) =>
              (index' = index /\ post' = post)
       /\ \A d \in index' \ index : \E r \in post' : d = Doc(r)
       /\ \A d \in index \ index' :
              \/ \E r \in post' : r.id = d.id /\ Doc(r) \in index'
              \/ \A r \in post' : r.id # d.id]_vars

\* With the index available, the commit of a modification of an
\* indexed post failed: the document still has the committed body.
C9_Witness ==
    /\ elasticsearch = "up"
    /\ inactive[1]
    /\ exc[1] = "OperationalError"
    /\ \E o \in changes[1].update, r \in post :
           /\ o.id = r.id
           /\ o.body # r.body
           /\ Doc(r) \in index
           /\ Doc(PostRow(o)) \notin index

\* C10: upsert on commit. When a transaction commits with the index
\* available, every post it added or modified, flushed before the commit or
\* not, has a document with its id and its body once commit() returns.
C10_UpsertOnCommit ==
    [][elasticsearch = "up" => \A r \in post' \ post : Doc(r) \in index']_vars

\* C11: removal on commit. When a transaction commits with the index
\* available, every post it deleted has no document under its id once
\* commit() returns.
C11_RemovalOnCommit ==
    [][elasticsearch = "up" =>
           \A r \in post :
               (\A q \in post' : q.id # r.id) => (\A d \in index' : d.id # r.id)]_vars

\* ------------------------------------------------------------- SpecSteps
\* Session.commit() in its three steps, so that the commits of concurrent
\* requests interleave: the before_commit listener, the flush and COMMIT,
\* the after_commit listener.
BeforeCommit(s) ==
    /\ Ready(s)
    /\ \E W \in {before_commit(Begin(s), s)} : Apply([W EXCEPT !.pc[s] = "captured"])

DoCommit(s, dbok) ==
    /\ pc[s] = "captured"
    /\ ~Blocked(World, s)
    /\ \E W \in {db_commit(flush(World, s), s, dbok)} :
           Apply([W EXCEPT !.pc[s] = IF Raised(W, s) THEN "idle" ELSE "committed"])

\* (mutant) the listener is registered for an event that precedes the COMMIT
AfterCommit_Early(s) ==
    /\ pc[s] = "captured"
    /\ \E W \in {after_commit(World, s)} : Apply(W)

AfterCommit(s) ==
    /\ pc[s] = "committed"
    /\ \E W \in {after_commit(World, s)} : Apply([W EXCEPT !.pc[s] = "idle"])

InitSteps == InitWith({"up"})

NextSteps ==
    \E s \in Sessions :
        \/ \E body \in Bodies : PostRoom /\ AddPost(s, 1, 1, body)
        \/ \E body \in Bodies : ModifyPost(s, body)
        \/ DeletePost(s)
        \/ BeforeCommit(s)
        \/ \E dbok \in BOOLEAN : DoCommit(s, dbok)
        \/ AfterCommit(s)
        \/ Rollback(s)

SpecSteps == InitSteps /\ [][NextSteps]_vars

\* C12: step ordering. For every transaction the capture of the
\* added/modified/deleted sets precedes the COMMIT and the COMMIT precedes
\* the index calls: the tables change only in the COMMIT step of a session
\* that has captured, the index changes only in the after_commit step of a
\* session whose transaction is finalized, and no row that is still
\* uncommitted has a document.
C12_StepOrder ==
    /\ [](\A s \in Sessions : \A r \in txn[s].prow :
              (\A q \in post : q.id # r.id) => (\A d \in index : d.id # r.id))
    /\ [][/\ \A s \in Sessions :
                 (pc'[s] = "committed" /\ pc[s] # "committed") =>
                     (pc[s] = "captured" /\ changes[s].set)
          /\ (post' # post \/ followers' # followers) =>
                 (index' = index
                  /\ \E s \in Sessions : pc[s] = "captured" /\ pc'[s] = "committed")
          /\ index' # index =>
                 (post' = post
                  /\ \E s \in Sessions :
                         /\ pc[s] = "committed" /\ pc'[s] = "idle"
                         /\ txn[s] = EmptyTxn)]_vars

\* A session has committed a new post and has not yet run after_commit: the
\* row is in the table, the captured object is in session._changes, the
\* document is not yet written.
C12_Witness ==
    \E s \in Sessions :
        /\ pc[s] = "committed"
        /\ \E o \in changes[s].add :
               /\ PostRow(o) \in post
               /\ \A d \in index : d.id # o.id

\* C16: eventual consistency of the index. With the index available, once
\* no transaction is in flight and no call has raised, the documents of the
\* index are the rows of the post table, each with its body.
Quiet ==
    \A s \in Sessions :
        /\ pc[s] = "idle" /\ ~inactive[s] /\ exc[s] = NoExc
        /\ txn[s] = EmptyTxn
        /\ new[s] \cup dirty[s] \cup deleted[s] \cup pending[s] = {}
        /\ ~changes[s].set

C16_EventuallyConsistent ==
    (elasticsearch = "up" /\ Quiet) => index = {Doc(r) : r \in post}

\* ----------------------------------------------------------------- search
\* All the orders of a finite set.
RECURSIVE Perms(_)
Perms(S) ==
    IF S = {} THEN {<<>>}
    ELSE UNION {{<<x>> \o t : t \in Perms(S \ {x})} : x \in S}

\* The slice of q that starts after `from` elements and has at most `size`.
Slice(q, from, size) ==
    IF from >= Len(q) THEN <<>>
    ELSE SubSeq(q, from + 1, IF from + size < Len(q) THEN from + size ELSE Len(q))

\* The documents a multi_match query for `query` hits: a body is one word,
\* the query matches the documents with that body.
Hits(W, query) == {d \in W.index : d.document.body = query}

\* query_index: the outcomes [exc, ids, total] the call may have. The index
\* returns the hits in the order of their scores; documents that match
\* equally come in an order of the index's choice.
query_index(W, query, page, per_page) ==
    IF W.elasticsearch = "unset"
    THEN {[exc |-> "AttributeError", ids |-> <<>>, total |-> 0]}
    ELSE IF W.elasticsearch = "none"
    THEN {[exc |-> NoExc, ids |-> <<>>, total |-> 0]}
    ELSE IF W.elasticsearch = "down"
    THEN {[exc |-> "ConnectionError", ids |-> <<>>, total |-> 0]}
    ELSE {[exc |-> NoExc,
           ids |-> [i \in DOMAIN Slice(q, (page - 1) * per_page, per_page) |->
                        Slice(q, (page - 1) * per_page, per_page)[i].id],
           total |-> Cardinality(Hits(W, query))]
            : q \in Perms(Hits(W, query))}

\* The position of id in ids (CASE post.id WHEN ids[i] THEN i).
Position(ids, id) == CHOOSE i \in DOMAIN ids : ids[i] = id

\* (mutant) the SELECT has no ORDER BY CASE: the rows come by id
Resolve_ById(W, s, ids) ==
    LET rows == {r \in ViewPost(W, s) : \E i \in DOMAIN ids : ids[i] = r.id}
    IN  CHOOSE q \in Perms(rows) :
            \A i, j \in DOMAIN q : i < j => q[i].id < q[j].id

\* select(cls).where(cls.id.in_(ids)).order_by(case(*when, value=cls.id)):
\* the rows of the store with an id in ids, in the order of ids.
Resolve(W, s, ids) ==
    LET rows == {r \in ViewPost(W, s) : \E i \in DOMAIN ids : ids[i] = r.id}
    IN  CHOOSE q \in Perms(rows) :
            \A i, j \in DOMAIN q :
                i < j => Position(ids, q[i].id) < Position(ids, q[j].id)

\* SearchableMixin.search: the worlds the call may leave. With a total that
\* is not 0 and no id on the page, the CASE has no WHEN: the store may
\* reject the statement or return no row.
search(W, s, expression, page, per_page) ==
    UNION {
        IF o.exc # NoExc THEN {Raise(W, s, o.exc)}
        ELSE IF o.total = 0
        THEN {[W EXCEPT !.found = [sess |-> s, ids |-> o.ids, items |-> <<>>, total |-> 0]]}
        ELSE LET F == flush(W, s)
             IN  IF Raised(F, s) THEN {F}
                 ELSE IF o.ids = <<>>
                 THEN {Raise(F, s, "OperationalError"),
                       [F EXCEPT !.found = [sess |-> s, ids |-> o.ids, items |-> <<>>,
                                            total |-> o.total]]}
                 ELSE {[F EXCEPT !.found = [sess |-> s, ids |-> o.ids,
                                            items |-> Resolve(F, s, o.ids),
                                            total |-> o.total]]}
        : o \in query_index(W, expression, page, per_page)}

\* (mutant) reindex reads one row (scalar for scalars)
reindex_First(W, s) ==
    LET F == flush(W, s)
    IN  IF Raised(F, s) \/ ViewPost(F, s) = {} THEN F
        ELSE LET r == CHOOSE x \in ViewPost(F, s) : \A y \in ViewPost(F, s) : x.id <= y.id
             IN  add_to_index(F, s, PostObj(0, r.id, r.user_id, r.timestamp, r.body))

\* SearchableMixin.reindex: add_to_index for every row of the table, as the
\* session reads it.
reindex(W, s) ==
    LET F == flush(W, s)
    IN  IF Raised(F, s) THEN F
        ELSE AddAll(F, s, {PostObj(0, r.id, r.user_id, r.timestamp, r.body)
                              : r \in ViewPost(F, s)})

\* Post.search(expression, page, per_page)
Search(s, expression, page, per_page) ==
    /\ Ready(s)
    /\ ~Blocked(World, s)
    /\ \E W \in search(Begin(s), s, expression, page, per_page) : Apply(W)

\* The caller is done with the result of the search.
SearchDone(s) ==
    /\ found.sess = s
    /\ found' = NoFound
    /\ UNCHANGED <<clock, stamped, user_table, followers, post, post_seq, nobj, new, dirty, deleted,
                   pending, txn, changes, inactive, exc, pc, index, elasticsearch, feed, paged, form,
                   hashing>>

\* Post.reindex()
Reindex(s) ==
    /\ Ready(s)
    /\ ~Blocked(World, s)
    /\ \E W \in {reindex(Begin(s), s)} : Apply(W)

\* ------------------------------------------------------------ SpecSearch
\* One session adding, modifying and deleting posts, reading, committing,
\* searching and reindexing, for each state of the index.
SearchPostRoom == nobj < MaxSearchPosts

InitSearch == Init

NextSearch ==
    \/ /\ found.sess = 0
       /\ \/ \E body \in Bodies : SearchPostRoom /\ AddPost(1, 1, 1, body)
          \/ \E body \in Bodies : ModifyPost(1, body)
          \/ DeletePost(1)
          \/ Autoflush(1)
          \/ Commit(1, TRUE)
          \/ Reindex(1)
          \/ \E expression \in Bodies, page \in 1..MaxPage, per_page \in 1..MaxPerPage :
                 Search(1, expression, page, per_page)
    \/ SearchDone(1)

SpecSearch == InitSearch /\ [][NextSearch]_vars

\* C13: index degradation when unconfigured. In the application create_app
\* makes, with ELASTICSEARCH_URL unset, no call raises (a commit that adds,
\* modifies or deletes a Post completes, the index calls do nothing) and
\* Post.search returns ([], 0).
C13_Unconfigured ==
    elasticsearch = "unset" =>
        /\ \A s \in Sessions : exc[s] = NoExc
        /\ index = {}
        /\ found.sess # 0 => (found.items = <<>> /\ found.total = 0)

\* C14: index failures never propagate. With the index configured and its
\* client's calls failing, no error reaches the caller of commit or search,
\* and search returns an empty result with total 0.
C14_IndexFailureSwallowed ==
    elasticsearch = "down" =>
        /\ \A s \in Sessions : exc[s] = NoExc
        /\ found.sess # 0 => (found.items = <<>> /\ found.total = 0)

\* C15: search re-resolution. The entities search returns are rows of the
\* store; they are the rows whose id is among the ids the index returned, in
\* the order of those ids, also when the index has documents of rows that no
\* longer exist; with total 0 the result is ([], 0).
FoundIds == [i \in DOMAIN found.items |-> found.items[i].id]
StoreIds(s) == {r.id : r \in ViewPost(World, s)}
InStore(id) == id \in StoreIds(found.sess)

C15_SearchResolved ==
    found.sess # 0 =>
        /\ \A i \in DOMAIN found.items : found.items[i] \in ViewPost(World, found.sess)
        /\ FoundIds = SelectSeq(found.ids, InStore)
        /\ found.total = 0 => found.items = <<>>

\* The index returned the id of a deleted post before the id of a post of
\* the store: the search returns the one post.
C15_Witness ==
    /\ found.sess # 0
    /\ Len(found.ids) = 2
    /\ ~InStore(found.ids[1])
    /\ FoundIds = <<found.ids[2]>>

\* C17: full reindex. With the index available, after reindex() every row
\* of the post table (as the session that reindexes reads it) has a document
\* under its id with its body, whatever the index held before.
C17_FullReindex ==
    (elasticsearch = "up" /\ Ready(1)) =>
        LET R == reindex(Begin(1), 1)
        IN  /\ ~Raised(R, 1)
            /\ \A r \in ViewPost(R, 1) : Doc(r) \in R.index

\* Two committed posts, one with no document and one with a document that
\* has an old body; the reindex writes both documents.
C17_Witness ==
    /\ elasticsearch = "up" /\ Ready(1)
    /\ \E r \in post : \A d \in index : d.id # r.id
    /\ \E r \in post : \E d \in index : d.id = r.id /\ d # Doc(r)
    /\ \A r \in post : Doc(r) \in reindex(Begin(1), 1).index

\* ---------------------------------------------------------- route handlers
\* Config.POSTS_PER_PAGE
POSTS_PER_PAGE == 3

\* No user has this username.
NoUser == 0

\* (mutant) the follow route without the comparison with current_user
follow_route_NoSelfCheck(W, s, current_user, username, valid, dbok) ==
    IF ~valid THEN W
    ELSE IF username = NoUser THEN W
    ELSE commit(follow(W, s, current_user, username), s, dbok)

\* The follow route: form check, lookup of the user, the self check, then
\* current_user.follow(user); db.session.commit().
follow_route(W, s, current_user, username, valid, dbok) ==
    IF ~valid THEN W
    ELSE IF username = NoUser THEN W
    ELSE IF username = current_user THEN W
    ELSE commit(follow(W, s, current_user, username), s, dbok)

\* The unfollow route.
unfollow_route(W, s, current_user, username, valid, dbok) ==
    IF ~valid THEN W
    ELSE IF username = NoUser THEN W
    ELSE IF username = current_user THEN W
    ELSE commit(unfollow(W, s, current_user, username), s, dbok)

\* The number of pages of `total` items.
Pages(total, per_page) ==
    IF total = 0 THEN 0 ELSE (total + per_page - 1) \div per_page

\* (mutant) db.paginate with error_out=True: 404 for a page below 1 and
\* for a page other than the first that has no items
paginate_ErrorOut(W, s, self, page, per_page) ==
    LET F == flush(W, s)
    IN  IF Raised(F, s) THEN {F}
        ELSE IF page < 1 THEN {Raise(F, s, "NotFound")}
        ELSE {IF Slice(q, (page - 1) * per_page, per_page) = <<>> /\ page # 1
              THEN Raise(F, s, "NotFound")
              ELSE [F EXCEPT !.paged =
                     [sess |-> s, user |-> self, page |-> page,
                      items |-> Slice(q, (page - 1) * per_page, per_page),
                      total |-> Len(q),
                      has_next |-> page < Pages(Len(q), per_page),
                      has_prev |-> page > 1]]
                : q \in following_posts(F, s, self)}

\* db.paginate(self.following_posts(), page=page, per_page=per_page,
\* error_out=False): a page below 1 is read as page 1; the items are the
\* slice of the feed, the total is its length, has_next tells whether the
\* page is before the last one, has_prev whether it is after the first.
paginate(W, s, self, page, per_page) ==
    LET F == flush(W, s)
        pg == IF page < 1 THEN 1 ELSE page
    IN  IF Raised(F, s) THEN {F}
        ELSE {[F EXCEPT !.paged =
                 [sess |-> s, user |-> self, page |-> pg,
                  items |-> Slice(q, (pg - 1) * per_page, per_page),
                  total |-> Len(q),
                  has_next |-> pg < Pages(Len(q), per_page),
                  has_prev |-> pg > 1]]
                : q \in following_posts(F, s, self)}

\* POST /follow/<username>
FollowRoute(s, current_user, username, valid) ==
    /\ Ready(s)
    /\ \E W \in {follow_route(Begin(s), s, current_user, username, valid, TRUE)} : Apply(W)

\* POST /unfollow/<username>
UnfollowRoute(s, current_user, username, valid) ==
    /\ Ready(s)
    /\ \E W \in {unfollow_route(Begin(s), s, current_user, username, valid, TRUE)} : Apply(W)

\* GET /index?page=page
IndexGet(s, current_user, page) ==
    /\ Ready(s)
    /\ \E W \in paginate(Begin(s), s, current_user, page, POSTS_PER_PAGE) : Apply(W)

\* The page is rendered.
PageDone(s) ==
    /\ paged.sess = s
    /\ paged' = NoPage
    /\ UNCHANGED <<clock, stamped, user_table, followers, post, post_seq, nobj, new, dirty, deleted,
                   pending, txn, changes, inactive, exc, pc, index, elasticsearch, feed, found, form,
                   hashing>>

\* ------------------------------------------------------------- SpecRoute
\* Requests to the index, follow and unfollow routes, one at a time.
RoutePostRoom == nobj < MaxRoutePosts

InitRoute == InitWith({"unset", "none"})

NextRoute ==
    \/ /\ paged.sess = 0
       /\ \/ \E a \in Users, ts \in Timestamps :
                 RoutePostRoom /\ PostCommitted(1, a, ts, 1, TRUE)
          \/ \E a \in Users, b \in Users \cup {NoUser}, valid \in BOOLEAN :
                 FollowRoute(1, a, b, valid)
          \/ \E a \in Users, b \in Users \cup {NoUser}, valid \in BOOLEAN :
                 UnfollowRoute(1, a, b, valid)
          \/ \E u \in Users, page \in 0..MaxPage : IndexGet(1, u, page)
    \/ PageDone(1)

SpecRoute == InitRoute /\ [][NextRoute]_vars

\* C18: soft pagination. A paginated feed read of a page beyond the last
\* page returns no items and has_next = False, and raises no error.
FeedSize(s, u) == Len(CHOOSE q \in following_posts(World, s, u) : TRUE)
BeyondLast == (paged.page - 1) * POSTS_PER_PAGE >= FeedSize(paged.sess, paged.user)

C18_SoftPagination ==
    /\ \A s \in Sessions : exc[s] # "NotFound"
    /\ (paged.sess # 0 /\ BeyondLast) => (paged.items = <<>> /\ ~paged.has_next)

\* Page 2 of a feed that fills page 1 exactly.
C18_Witness ==
    /\ paged.sess # 0
    /\ paged.page = 2
    /\ FeedSize(paged.sess, paged.user) = POSTS_PER_PAGE
    /\ paged.items = <<>>
    /\ ~paged.has_next

\* C20: self-follow is rejected at the handler layer. A follow request whose
\* target is the current user leaves the followers table as it is, and in
\* the states the route handlers reach no user follows itself.
C20_NoSelfFollow ==
    /\ \A a \in Users : ~Follows(a, a)
    /\ \A a \in Users :
           follow_route(Begin(1), 1, a, a, TRUE, TRUE).followers = followers

\* The routes have made an edge, and a self-follow request changes nothing.
C20_Witness ==
    \E a, b \in Users :
        /\ a # b /\ Follows(a, b) /\ ~Follows(a, a)
        /\ follow_route(Begin(1), 1, a, a, TRUE, TRUE).followers = followers

\* --------------------------------------------------------------- SpecTie
\* One session committing posts (timestamps may be equal) and follows, and
\* reading feeds.
TiePostRoom == nobj < MaxTiePosts

InitTie == InitWith({"unset", "none"})

NextTie ==
    \/ \E a \in Users, ts \in Timestamps : TiePostRoom /\ PostCommitted(1, a, ts, 1, TRUE)
    \/ \E a, b \in Users : EdgeRoom /\ FollowCommitted(1, a, b, TRUE)
    \/ \E u \in Users : FeedQuery(1, u)
    \/ Respond(1)

SpecTie == InitTie /\ [][NextTie]_vars

\* C19: deterministic tie order. For a fixed state of the store and a fixed
\* user, a second call of the feed query returns the sequence the first
\* returned, also when posts of the feed have equal timestamps.
C19_DeterministicTies ==
    HasFeed =>
        \A q \in following_posts(World, feed.sess, feed.user) : q = feed.posts

\* -------------------------------------------------------------- passwords
\* The digest of a password under a method and a salt: a value that is
\* determined by the three and tells nothing else (two digests are equal
\* exactly when their method, salt and password are).
hash_internal(method, salt, password) == [digest |-> <<method, salt, password>>]

\* generate_password_hash(password): "method$salt$digest" with a salt drawn
\* at random.
generate_password_hash(password, salt) ==
    <<"scrypt", salt, hash_internal("scrypt", salt, password)>>

\* check_password_hash(pwhash, password): split pwhash at "$" into method,
\* salt and digest (False if it has not the three parts), hash the password
\* with that method and salt, compare. None has no split.
check_password_hash(pwhash, password) ==
    IF pwhash = NoHash THEN [exc |-> "AttributeError", value |-> FALSE]
    ELSE IF Len(pwhash) # 3 THEN [exc |-> NoExc, value |-> FALSE]
    ELSE [exc |-> NoExc,
          value |-> hash_internal(pwhash[1], pwhash[2], password) = pwhash[3]]

\* (mutant) set_password keeps the password as it is given
set_password_Plain(o, password, salt) == [o EXCEPT !.password_hash = <<password>>]

\* User.set_password
set_password(o, password, salt) ==
    [o EXCEPT !.password_hash = generate_password_hash(password, salt)]

\* User.check_password
check_password(o, password) == check_password_hash(o.password_hash, password)

\* ----------------------------------------------------------- registration
\* The empty string (a field left empty, or an email address that is none).
Empty == 0

\* (mutant) validate_username and validate_email are missing
RegistrationErrors_NoLookup(W, s, username, email, password, password2) ==
    (IF username = Empty THEN {"username"} ELSE {})
    \cup (IF email = Empty THEN {"email"} ELSE {})
    \cup (IF password = Empty THEN {"password"} ELSE {})
    \cup (IF password2 = Empty \/ password2 # password THEN {"password2"} ELSE {})

\* RegistrationForm.validate(): the fields with an error. DataRequired on
\* the four fields, Email on email, EqualTo("password") on password2, and
\* validate_username / validate_email, which look the value up in the user
\* table.
RegistrationErrors(W, s, username, email, password, password2) ==
    (IF username = Empty \/ \E r \in ViewUser(W, s) : r.username = username
     THEN {"username"} ELSE {})
    \cup (IF email = Empty \/ \E r \in ViewUser(W, s) : r.email = email
          THEN {"email"} ELSE {})
    \cup (IF password = Empty THEN {"password"} ELSE {})
    \cup (IF password2 = Empty \/ password2 # password THEN {"password2"} ELSE {})

\* The register route up to db.session.add(user): the redirect of a user
\* who is logged in, the validation of the form, User(...), set_password.
register_add(W, s, authenticated, username, email, password, password2, salt) ==
    IF authenticated THEN W
    ELSE LET F == flush(W, s)
             errors == RegistrationErrors(F, s, username, email, password, password2)
             V == [F EXCEPT !.form = [sess |-> s, username |-> username, email |-> email,
                                      errors |-> errors]]
         IN  IF Raised(F, s) THEN F
             ELSE IF errors # {} THEN V
             ELSE [V EXCEPT !.new[s] = @ \cup
                     {set_password(NewUser(Cardinality(V.new[s]) + 1, username, email),
                                   password, salt)}]

\* The register route: register_add, then db.session.commit() if the form
\* was valid.
register(W, s, authenticated, username, email, password, password2, salt, dbok) ==
    LET A == register_add(W, s, authenticated, username, email, password, password2, salt)
    IN  IF A.form.sess = s /\ A.form.errors = {} THEN commit(A, s, dbok) ELSE A

\* A request starts with a session that holds nothing.
Clean(s) ==
    /\ new[s] \cup dirty[s] \cup deleted[s] \cup pending[s] = {}
    /\ txn[s] = EmptyTxn

\* POST /auth/register, up to the commit
Register(s, authenticated, username, email, password, password2, salt) ==
    /\ Ready(s)
    /\ Clean(s)
    /\ \E W \in {register_add(Begin(s), s, authenticated, username, email,
                                password, password2, salt)} : Apply(W)

\* ---------------------------------------------------------------- SpecReg
\* Concurrent registration requests, each with its own session, from an
\* empty user table.
InitReg == InitUsers({"unset", "none"}, {})

NextReg ==
    \E s \in Sessions :
        \/ \E username, email \in Names \cup {Empty},
              password \in 1..MaxRegPw, password2 \in 0..MaxRegPw, salt \in 1..MaxRegSalt :
               Register(s, FALSE, username, email, password, password2, salt)
        \/ \E username \in Names : Register(s, TRUE, username, username, 1, 1, 1)
        \/ new[s] # {} /\ Commit(s, TRUE)
        \/ Rollback(s)

SpecReg == InitReg /\ [][NextReg]_vars

\* C21: duplicate registration is rejected before any mutation. A
\* registration whose username or email is that of a user row fails the
\* validation of the form, adds no object to the session and no row to the
\* table (the route does not reach add or commit), and no two user rows
\* share a username or an email.
C21_DuplicateRejected ==
    /\ [](\A a, b \in user_table :
              a # b => (a.username # b.username /\ a.email # b.email /\ a.id # b.id))
    /\ [](\A r \in user_table, n \in Names :
              (Ready(1) /\ Clean(1)) =>
                  /\ register(Begin(1), 1, FALSE, r.username, n, 1, 1, 1, TRUE).user_table
                         = user_table
                  /\ register(Begin(1), 1, FALSE, n, r.email, 1, 1, 1, TRUE).user_table
                         = user_table)
    /\ [][(form'.sess # 0 /\ form' # form) =>
              ((\E r \in user_table :
                    r.username = form'.username \/ r.email = form'.email)
               => /\ form'.errors \cap {"username", "email"} # {}
                  /\ new'[form'.sess] = {}
                  /\ txn'[form'.sess] = EmptyTxn
                  /\ user_table' = user_table)]_vars

\* A form with the username of a user row and an email no row has was
\* rejected for its username; the session holds nothing to commit.
C21_Witness ==
    /\ form.sess # 0
    /\ "username" \in form.errors
    /\ "email" \notin form.errors
    /\ \E r \in user_table : r.username = form.username /\ r.email # form.email
    /\ new[form.sess] = {}
    /\ Cardinality(user_table) = 1

\* ----------------------------------------------------------------- SpecPw
\* The calls of test_password_hashing on one User object, in any order and
\* with any passwords: u.set_password(password), u.check_password(q).
SetPassword(password, salt) ==
    /\ hashing' = [u |-> set_password(hashing.u, password, salt),
                   last |-> password, before |-> hashing.last, q |-> 0,
                   result |-> NoHashing.result]
    /\ UNCHANGED <<clock, stamped, user_table, followers, post, post_seq, nobj, new, dirty, deleted,
                   pending, txn, changes, inactive, exc, pc, index, elasticsearch,
                   feed, paged, found, form>>

CheckPassword(q) ==
    /\ hashing' = [hashing EXCEPT !.q = q, !.result = check_password(hashing.u, q)]
    /\ UNCHANGED <<clock, stamped, user_table, followers, post, post_seq, nobj, new, dirty, deleted,
                   pending, txn, changes, inactive, exc, pc, index, elasticsearch,
                   feed, paged, found, form>>

InitPw == InitWith({"unset", "none"})

NextPw ==
    \/ \E password \in Passwords, salt \in Salts : SetPassword(password, salt)
    \/ \E q \in Passwords : CheckPassword(q)

SpecPw == InitPw /\ [][NextPw]_vars

\* C22: password round trip. After u.set_password(p), u.check_password(q)
\* is true exactly when q = p; the stored credential is the digest of p with
\* its method and salt, never p itself; after a later set_password(p2),
\* check_password(p) is false for p # p2.
C22_PasswordRoundTrip ==
    hashing.last # 0 =>
        LET h == hashing.u.password_hash
        IN  /\ h # <<hashing.last>>
            /\ Len(h) = 3 /\ h[3] = hash_internal(h[1], h[2], hashing.last)
            /\ hashing.q # 0 =>
                   /\ hashing.result.exc = NoExc
                   /\ hashing.result.value <=> hashing.q = hashing.last
            /\ (hashing.q = hashing.before /\ hashing.before # hashing.last) =>
                   ~hashing.result.value

\* The password was set twice, to different values, and the first one was
\* checked after the second set_password: it is refused.
C22_Witness ==
    /\ hashing.before # 0
    /\ hashing.before # hashing.last
    /\ hashing.q = hashing.before
    /\ ~hashing.result.value
    /\ check_password(hashing.u, hashing.last).value

\* --------------------------------------------------------------- SpecProj
\* One request after another on one session, with the index available:
\* registrations, follows and changes of posts, committed together or apart,
\* the commit in its three steps. One user exists at the start.
InitProj ==
    InitUsers({"up"}, {[id |-> 1, username |-> 1, email |-> 1, password_hash |-> NoHash]})

NextProj ==
    \/ \E username \in Names, password \in 1..MaxRegPw, salt \in 1..MaxRegSalt :
           Register(1, FALSE, username, username, password, password, salt)
    \/ \E a, b \in {r.id : r \in user_table} : TxRoom(1) /\ EdgeRoom /\ Follow(1, a, b)
    \/ \E a, b \in {r.id : r \in user_table} : TxRoom(1) /\ Unfollow(1, a, b)
    \/ \E body \in Bodies : PostRoom /\ AddPost(1, 1, 1, body)
    \/ \E body \in Bodies : ModifyPost(1, body)
    \/ DeletePost(1)
    \/ BeforeCommit(1)
    \/ DoCommit(1, TRUE)
    \/ AfterCommit(1)

SpecProj == InitProj /\ [][NextProj]_vars

\* C23: only searchable entities are projected. The after_commit hook
\* writes and removes documents only for the Post objects of the snapshot,
\* never for a User or a follow edge; a document written has the id of its
\* post and the field body with the post's body, and no other field.
C23_OnlySearchableProjected ==
    /\ [](\A d \in index : DOMAIN d.document = {"body"} /\ d.document.body \in Bodies)
    /\ [][index' # index =>
              \E s \in Sessions :
                  /\ pc[s] = "committed"
                  /\ \A d \in index' \ index :
                         \E o \in changes[s].add \cup changes[s].update :
                             o.kind = "post" /\ d = Doc(PostRow(o))
                  /\ \A d \in index \ index' :
                         \E o \in changes[s].add \cup changes[s].update \cup changes[s].delete :
                             o.kind = "post" /\ o.id = d.id]_vars

\* A commit of a new user, a follow edge and a new post has been made and
\* projected: the index holds the document of the post and nothing else.
C23_Witness ==
    /\ pc[1] = "idle"
    /\ ~changes[1].set
    /\ Cardinality(user_table) = 2
    /\ DOMAIN followers # {}
    /\ \E r \in post : index = {Doc(r)}

\* C24: snapshot discarded on failed commit. When a commit fails after
\* before_commit has captured the snapshot, the rollback discards it: once
\* the session is rolled back, session._changes holds no snapshot.
C24_SnapshotDiscarded ==
    [][\A s \in Sessions :
           (inactive[s] /\ ~inactive'[s]) => changes'[s] = NoChanges]_vars

SpecIndep == Init /\ [][NextSteps]_vars

\* C26: the relational commit is independent of the index. Once the COMMIT
\* of a transaction is made its rows are in the tables while the projection
\* is still to come, and the after_commit step leaves the tables as they
\* are whether its index calls succeed or raise.
C26_CommitIndependent ==
    [][\A s \in Sessions :
           /\ pc'[s] = "committed" => txn'[s] = EmptyTxn
           /\ (pc[s] = "committed" /\ pc'[s] # "committed") =>
                  (post' = post /\ followers' = followers /\ user_table' = user_table)]_vars

\* With the index failing, a commit of a new post has raised out of its
\* after_commit: the row is in the table, no document was written.
C26_Witness ==
    \E s \in Sessions :
        /\ elasticsearch = "down"
        /\ pc[s] = "idle"
        /\ exc[s] = "ConnectionError"
        /\ \E o \in changes[s].add : PostRow(o) \in post
        /\ index = {}

\* C27: concurrent follow is a no-op for the loser. When two transactions
\* run follow(A,B) concurrently from a state without the edge (A,B), both
\* commit without an error and the table holds the one edge (A,B): no
\* follow and no commit of it raises IntegrityError.
C27_ConcurrentFollowNoError ==
    /\ \A s \in Sessions : exc[s] # "IntegrityError"
    /\ \A e \in DOMAIN followers : followers[e] = 1

\* C28: pages partition the feed. For a fixed state of the store, a user
\* and the page size, every page has at most that many posts, has_prev is
\* true exactly for a page after the first, has_next exactly when posts
\* remain after the page, and the pages 1 to the last, read one after
\* another and put together, are the sequence following_posts() returns,
\* with every post once.
RECURSIVE PagesFrom(_, _, _, _)
PagesFrom(W, u, k, last) ==
    IF k > last THEN {<<>>}
    ELSE {P.paged.items \o t : P \in paginate(W, 1, u, k, POSTS_PER_PAGE),
                               t \in PagesFrom(W, u, k + 1, last)}

C28_PagesPartition ==
    (Ready(1) /\ paged.sess = 0) =>
        \A u \in Users :
            LET W == Begin(1)
                total == FeedSize(1, u)
            IN  /\ \A k \in 1..(Pages(total, POSTS_PER_PAGE) + 1) :
                       \A P \in paginate(W, 1, u, k, POSTS_PER_PAGE) :
                           /\ Len(P.paged.items) <= POSTS_PER_PAGE
                           /\ P.paged.has_prev <=> k > 1
                           /\ P.paged.has_next <=> k * POSTS_PER_PAGE < total
                /\ \A c \in PagesFrom(W, u, 1, Pages(total, POSTS_PER_PAGE)) :
                       /\ c \in following_posts(W, 1, u)
                       /\ \A i, j \in DOMAIN c : i # j => c[i].id # c[j].id

\* C29: frame of follow and unfollow. follow(A,B) and unfollow(A,B), with
\* their commit, change at most the edge (A,B): every other edge, every post
\* and every user row is as before, is_following(X,Y) is as before for
\* (X,Y) # (A,B), and so is the feed of every user other than A.
SameBut(W, a, b) ==
    /\ ~Raised(W, 1)
    /\ \A x, y \in Users :
           <<x, y>> # <<a, b>> =>
               /\ Rows(W.followers, <<x, y>>) = Rows(followers, <<x, y>>)
               /\ is_following(W, 1, x, y) <=> is_following(World, 1, x, y)
    /\ W.post = post
    /\ W.user_table = user_table
    /\ \A u \in Users \ {a} : following_posts(W, 1, u) = following_posts(World, 1, u)

C29_FollowFrame ==
    Ready(1) =>
        \A a, b \in Users :
            /\ SameBut(commit(follow(Begin(1), 1, a, b), 1, TRUE), a, b)
            /\ SameBut(commit(unfollow(Begin(1), 1, a, b), 1, TRUE), a, b)

\* A user who follows two users unfollows one of them, who has a post: the
\* edge goes, the other edge stays, and the post leaves the user's feed.
C29_Witness ==
    /\ Ready(1)
    /\ \E a \in Users, b \in Users, c \in Users :
           /\ b # c /\ a # b
           /\ Follows(a, b) /\ Follows(a, c)
           /\ \E p \in post : p.user_id = b
           /\ LET U == commit(unfollow(Begin(1), 1, a, b), 1, TRUE)
              IN  /\ ~is_following(U, 1, a, b)
                  /\ is_following(U, 1, a, c)
                  /\ following_posts(U, 1, a) # following_posts(World, 1, a)

\* ------------------------------------------------------------- SpecClock
\* Time passes: datetime.now(timezone.utc) returns a later time.
Tick ==
    /\ clock < MaxClock
    /\ \E W \in {[World EXCEPT !.clock = @ + 1]} : Apply(W)

ClockPostRoom == nobj < MaxClockPosts

\* Requests, each with its own session, adding posts with a timestamp of the
\* caller's choice (as test_follow_posts does) or with none (as the index
\* route does), and committing, while time passes.
InitClock == InitWith({"unset", "none"})

NextClock ==
    \/ \E s \in Sessions :
           \/ \E a \in Users, ts \in Timestamps \cup {NULL} :
                  ClockPostRoom /\ AddPost(s, a, ts, 1)
           \/ new[s] # {} /\ Commit(s, TRUE)
    \/ Tick

SpecClock == InitClock /\ [][NextClock]_vars

====
